---------------------------- MODULE Spec2Model ----------------------------
(***************************************************************************)
(* A model of the word-lookup engine of app.js: the trie (TrieNode,        *)
(* WordDictionary.insertWord / searchWord), the bounded prefix enumeration *)
(* (getAutoSuggestions / #dfs), the fuzzy matcher (editDistance /          *)
(* getSpellingCorrections) and the page wiring that loads the dictionary   *)
(* and runs the queries from timer callbacks.                              *)
(*                                                                         *)
(* A JavaScript string is modelled as the sequence of its characters, each *)
(* character a one-letter TLA+ string.  A TrieNode is identified by the    *)
(* path of characters that leads to it from the root object; its Map       *)
(* `children` is the sequence of its keys in insertion order (the order a  *)
(* Map iterates in), and children.get(ch) of node p is the node p \o <<ch>>.*)
(***************************************************************************)
EXTENDS Integers, Sequences, FiniteSets, TLC

\* ------------------------------------------------------------- bounds
\* Most characters stored, over all the words of the dictionary, when words
\* are inserted with definitions.
MaxChars == 3
\* The same capacity when words are inserted with the default definition.
MaxLexChars == 4
\* Longest prefix or misspelt word handed to a query.
MaxQuery == 2
\* Largest maxSuggestions handed to a query.
MaxSug == 2
\* Largest maxDistance handed to getSpellingCorrections.
MaxDist == 2
\* Longest string handed to editDistance on its own.
MaxStr == 3
\* Most rows in dictionary.csv.
MaxRows == 2
\* Most timer callbacks pending at once.
MaxTimers == 2
\* Most dictionary calls and pending callbacks the page's history holds.
MaxEvents == 4

\* ------------------------------------------------------------- inputs
LowerChars == {"a", "b"}
UpperChars == {"A"}
Chars == LowerChars \cup UpperChars

StringsOver(alphabet, n) == UNION {[1..k -> alphabet] : k \in 0..n}

\* Any-case strings a caller may pass as a prefix or as a misspelt word.
QueryWords == StringsOver(Chars, MaxQuery)
\* Any-case strings a caller may pass to insertWord with a definition, and
\* without one.
Words == StringsOver(Chars, MaxChars)
PlainWords == StringsOver(Chars, MaxLexChars)
\* Definitions a caller may pass; "" is the default argument.
Definitions == {"", "x", "y"}
\* The values of maxSuggestions and maxDistance a caller may pass.
SugLimits == 1..MaxSug
Distances == 0..MaxDist

VARIABLES
  root,        \* the trie: path -> [children, isEndOfWord, definition]
  wordList,    \* WordDictionary.wordList
  wordsSet,    \* WordDictionary.wordsSet
  expected,    \* history: lower-cased word -> the definition the update rule leaves
  firstSeen,   \* history: lower-cased words in order of their first insertion
  a, b, dist,  \* an editDistance call: its arguments and its result (-1: not run)
  loadPc,      \* the DOMContentLoaded handler: "start", "fetching", "loaded", "failed"
  csvRows,     \* the rows Papa.parse will yield for dictionary.csv
  timers,      \* pending setTimeout callbacks, oldest first
  shown,       \* what resultsSection shows
  events       \* history: the dictionary calls made by the page, in order

engineVars == <<root, wordList, wordsSet, expected, firstSeen>>
editVars == <<a, b, dist>>
appVars == <<loadPc, csvRows, timers, shown, events>>
vars == <<root, wordList, wordsSet, expected, firstSeen, a, b, dist,
          loadPc, csvRows, timers, shown, events>>

\* ------------------------------------------------------------- strings
\* String.prototype.toLowerCase on one character.
LowerChar(c) ==
  CASE c = "A" -> "a"
    [] OTHER -> c

\* String.prototype.toLowerCase.
toLowerCase(word) == [i \in 1..Len(word) |-> LowerChar(word[i])]

Range(s) == {s[i] : i \in 1..Len(s)}

\* ------------------------------------------------------------- the trie
\* new TrieNode()
TrieNode == [children |-> <<>>, isEndOfWord |-> FALSE, definition |-> ""]

\* new WordDictionary()
NewDictionary == [root |-> (<<>> :> TrieNode), wordList |-> <<>>, wordsSet |-> {}]

\* node.children.has(ch)
Has(node, ch) == \E i \in 1..Len(node.children) : node.children[i] = ch

\* InsertPath with the definition assigned inside the loop, to every node on
\* the way, instead of to the final node only.
RECURSIVE InsertPath_DefinitionOnPath(_, _, _, _, _)
InsertPath_DefinitionOnPath(nodes, current, lowerWord, i, definition) ==
  IF i > Len(lowerWord)
  THEN [nodes EXCEPT ![current].isEndOfWord = TRUE,
                     ![current].definition = definition]
  ELSE LET char == lowerWord[i]
           child == Append(current, char)
           grown == IF Has(nodes[current], char)
                    THEN nodes
                    ELSE [nodes EXCEPT ![current].children = Append(@, char)]
                           @@ (child :> TrieNode)
       IN InsertPath_DefinitionOnPath(
            [grown EXCEPT ![child].definition = definition],
            child, lowerWord, i + 1, definition)

\* The loop of insertWord's normal path from position i on, then the two
\* assignments to the final node.
RECURSIVE InsertPath(_, _, _, _, _)
InsertPath(nodes, current, lowerWord, i, definition) ==
  IF i > Len(lowerWord)
  THEN [nodes EXCEPT ![current].isEndOfWord = TRUE,
                     ![current].definition = definition]
  ELSE LET char == lowerWord[i]
           child == Append(current, char)
           grown == IF Has(nodes[current], char)
                    THEN nodes
                    ELSE [nodes EXCEPT ![current].children = Append(@, char)]
                           @@ (child :> TrieNode)
       IN InsertPath(grown, child, lowerWord, i + 1, definition)

\* The walk of searchWord and getAutoSuggestions from position i on: the
\* node reached, or "missing" when an edge is absent.
RECURSIVE Walk(_, _, _, _)
Walk(nodes, current, lowerWord, i) ==
  IF i > Len(lowerWord) THEN [missing |-> FALSE, node |-> current]
  ELSE IF ~Has(nodes[current], lowerWord[i]) THEN [missing |-> TRUE, node |-> current]
  ELSE Walk(nodes, Append(current, lowerWord[i]), lowerWord, i + 1)

\* UpdateDefinition without the test `if (definition)`: an empty definition
\* overwrites the stored one.
UpdateDefinition_Always(dict, lowerWord, definition) ==
  LET cur == Walk(dict.root, <<>>, lowerWord, 1) IN
  IF ~cur.missing
  THEN [dict EXCEPT !.root[cur.node].definition = definition]
  ELSE dict

\* UpdateDefinition that keeps a stored definition and fills an empty one
\* only: `cur.definition || definition`.
UpdateDefinition_KeepOld(dict, lowerWord, definition) ==
  LET cur == Walk(dict.root, <<>>, lowerWord, 1) IN
  IF definition # "" /\ ~cur.missing /\ dict.root[cur.node].definition = ""
  THEN [dict EXCEPT !.root[cur.node].definition = definition]
  ELSE dict

\* The update branch of insertWord: the word is in wordsSet already.  cur is
\* the node its characters lead to; `definition || cur.definition` is
\* definition, which is non-empty here.
UpdateDefinition(dict, lowerWord, definition) ==
  IF definition # ""
  THEN LET cur == Walk(dict.root, <<>>, lowerWord, 1) IN
       IF ~cur.missing
       THEN [dict EXCEPT !.root[cur.node].definition = definition]
       ELSE dict
  ELSE dict

\* insertWord without the `return` that ends the update branch: a word
\* already present falls through to the normal insert.
insertWord_NoReturn(dict, word, definition) ==
  LET lowerWord == toLowerCase(word)
      updated == IF lowerWord \in dict.wordsSet
                 THEN UpdateDefinition(dict, lowerWord, definition)
                 ELSE dict
  IN [root |-> InsertPath(updated.root, <<>>, lowerWord, 1, definition),
      wordsSet |-> updated.wordsSet \cup {lowerWord},
      wordList |-> Append(updated.wordList, lowerWord)]

\* WordDictionary.insertWord(word, definition), as a function of the
\* dictionary it is called on.
insertWord(dict, word, definition) ==
  LET lowerWord == toLowerCase(word) IN
  IF lowerWord \in dict.wordsSet
  THEN UpdateDefinition(dict, lowerWord, definition)
  ELSE [root |-> InsertPath(dict.root, <<>>, lowerWord, 1, definition),
        wordsSet |-> dict.wordsSet \cup {lowerWord},
        wordList |-> Append(dict.wordList, lowerWord)]

\* WordDictionary.searchWord(word)
searchWord(dict, word) ==
  LET w == Walk(dict.root, <<>>, toLowerCase(word), 1) IN
  IF w.missing
  THEN [found |-> FALSE, definition |-> ""]
  ELSE [found |-> dict.root[w.node].isEndOfWord,
        definition |-> dict.root[w.node].definition]

\* ------------------------------------------------------------- suggestions
\* Array.from(new Set(items)): the first occurrence of each element, in order.
RECURSIVE Unique(_)
Unique(items) ==
  IF items = <<>> THEN <<>>
  ELSE LET front == Unique(SubSeq(items, 1, Len(items) - 1))
           last == items[Len(items)]
       IN IF last \in Range(front) THEN front ELSE Append(front, last)

\* Array.prototype.slice(0, n) for n >= 0.
Slice(items, n) == SubSeq(items, 1, IF n < Len(items) THEN n ELSE Len(items))

\* WordDictionary.#dfs(node, prefix, suggestions, maxSuggestions): the
\* suggestions array after the call.  dfsChildren is its for-of loop over
\* node.children, from the i-th entry on.
RECURSIVE dfs(_, _, _, _, _)
RECURSIVE dfsChildren(_, _, _, _, _, _)

\* dfs that returns after pushing a word, without visiting the children of
\* a terminal node.
dfs_StopAtWord(nodes, node, prefix, suggestions, maxSuggestions) ==
  IF Len(suggestions) >= maxSuggestions THEN suggestions
  ELSE IF nodes[node].isEndOfWord THEN Append(suggestions, prefix)
  ELSE dfsChildren(nodes, node, prefix, suggestions, maxSuggestions, 1)

dfs(nodes, node, prefix, suggestions, maxSuggestions) ==
  IF Len(suggestions) >= maxSuggestions THEN suggestions
  ELSE dfsChildren(nodes, node, prefix,
                   IF nodes[node].isEndOfWord THEN Append(suggestions, prefix)
                                              ELSE suggestions,
                   maxSuggestions, 1)

\* The loop of dfs with a `return` in its body: only the first child is
\* visited.
dfsChildren_FirstOnly(nodes, node, prefix, suggestions, maxSuggestions, i) ==
  IF i > Len(nodes[node].children) THEN suggestions
  ELSE LET char == nodes[node].children[i] IN
       dfs(nodes, Append(node, char), Append(prefix, char),
           suggestions, maxSuggestions)

dfsChildren(nodes, node, prefix, suggestions, maxSuggestions, i) ==
  IF i > Len(nodes[node].children) THEN suggestions
  ELSE LET char == nodes[node].children[i] IN
       dfsChildren(nodes, node, prefix,
                   dfs(nodes, Append(node, char), Append(prefix, char),
                       suggestions, maxSuggestions),
                   maxSuggestions, i + 1)

\* getAutoSuggestions without the final slice(0, maxSuggestions).
getAutoSuggestions_NoSlice(dict, prefix, maxSuggestions) ==
  LET lowerPrefix == toLowerCase(prefix)
      w == Walk(dict.root, <<>>, lowerPrefix, 1)
  IN IF w.missing THEN <<>>
     ELSE Unique(dfs(dict.root, w.node, lowerPrefix, <<>>, maxSuggestions * 3))

\* WordDictionary.getAutoSuggestions(prefix, maxSuggestions)
getAutoSuggestions(dict, prefix, maxSuggestions) ==
  LET lowerPrefix == toLowerCase(prefix)
      w == Walk(dict.root, <<>>, lowerPrefix, 1)
  IN IF w.missing THEN <<>>
     ELSE Slice(Unique(dfs(dict.root, w.node, lowerPrefix, <<>>, maxSuggestions * 3)),
                maxSuggestions)

\* ------------------------------------------------------------- fuzzy matching
Min2(x, y) == IF x <= y THEN x ELSE y

\* Math.min of three numbers.
Min3(x, y, z) == Min2(x, Min2(y, z))

\* The body of editDistance's inner loop: the value stored in dp[i][j].  A
\* row of dp is a sequence whose (j+1)-th element is the row's column j;
\* prev is row i-1 and cur the part of row i filled so far (columns 0..j-1).
\* This is the body without the substitution term dp[i-1][j-1] in the min.
Cell_NoSubstitution(prev, cur, s, t, i, j) ==
  IF s[i] = t[j] THEN prev[j]
  ELSE 1 + Min2(prev[j + 1], cur[j])

Cell(prev, cur, s, t, i, j) ==
  IF s[i] = t[j] THEN prev[j]
  ELSE 1 + Min3(prev[j + 1], cur[j], prev[j])

\* editDistance's inner loop over j for row i, from the column Len(cur) on.
RECURSIVE FillRow(_, _, _, _, _)
FillRow(prev, cur, s, t, i) ==
  IF Len(cur) = Len(t) + 1 THEN cur
  ELSE FillRow(prev, Append(cur, Cell(prev, cur, s, t, i, Len(cur))), s, t, i)

\* Row i of dp once the loops have run: dp[0][j] = j, dp[i][0] = i, and the
\* other cells from the row above.
RECURSIVE DpRow(_, _, _)
DpRow(s, t, i) ==
  IF i = 0 THEN [j \in 1..(Len(t) + 1) |-> j - 1]
  ELSE FillRow(DpRow(s, t, i - 1), <<i>>, s, t, i)

\* WordDictionary.editDistance(a, b): dp[m][n].
editDistance(s, t) == DpRow(s, t, Len(s))[Len(t) + 1]

\* The code point of a character.
CharCode(c) ==
  CASE c = "A" -> 65
    [] c = "a" -> 97
    [] c = "b" -> 98

\* String.prototype.localeCompare on lower-cased words: negative, zero or
\* positive as s sorts before, with or after t alphabetically.
RECURSIVE localeCompare(_, _)
localeCompare(s, t) ==
  IF s = <<>> THEN (IF t = <<>> THEN 0 ELSE -1)
  ELSE IF t = <<>> THEN 1
  ELSE IF s[1] # t[1] THEN (IF CharCode(s[1]) < CharCode(t[1]) THEN -1 ELSE 1)
  ELSE localeCompare(Tail(s), Tail(t))

\* The comparator without its tie-break: `a.distance - b.distance` alone.
CompareCandidates_DistanceOnly(x, y) == x.distance - y.distance

\* The comparator handed to candidates.sort.
CompareCandidates(x, y) ==
  IF x.distance - y.distance # 0 THEN x.distance - y.distance
  ELSE localeCompare(x.word, y.word)

\* Array.prototype.sort with that comparator (a stable sort).
RECURSIVE SortCandidates(_)
RECURSIVE InsertSorted(_, _)
InsertSorted(sorted, c) ==
  IF sorted = <<>> THEN <<c>>
  ELSE IF CompareCandidates(c, sorted[Len(sorted)]) < 0
       THEN Append(InsertSorted(SubSeq(sorted, 1, Len(sorted) - 1), c),
                   sorted[Len(sorted)])
       ELSE Append(sorted, c)

SortCandidates(candidates) ==
  IF candidates = <<>> THEN <<>>
  ELSE InsertSorted(SortCandidates(SubSeq(candidates, 1, Len(candidates) - 1)),
                    candidates[Len(candidates)])

\* The first loop of getSpellingCorrections, from the i-th word on.
RECURSIVE Candidates(_, _, _, _)
Candidates(words, lowerWord, maxDistance, i) ==
  IF i > Len(words) THEN <<>>
  ELSE LET distance == editDistance(lowerWord, words[i])
           rest == Candidates(words, lowerWord, maxDistance, i + 1)
       IN IF distance > 0 /\ distance <= maxDistance
          THEN <<[word |-> words[i], distance |-> distance]>> \o rest
          ELSE rest

\* The second loop of getSpellingCorrections, from the i-th candidate on:
\* skip the words seen, push, and break once unique is long enough.
RECURSIVE KeepUnique(_, _, _, _)
KeepUnique(candidates, unique, maxSuggestions, i) ==
  IF i > Len(candidates) THEN unique
  ELSE IF \E k \in 1..Len(unique) : unique[k].word = candidates[i].word
       THEN KeepUnique(candidates, unique, maxSuggestions, i + 1)
       ELSE LET pushed == Append(unique, candidates[i]) IN
            IF Len(pushed) >= maxSuggestions THEN pushed
            ELSE KeepUnique(candidates, pushed, maxSuggestions, i + 1)

\* WordDictionary.getSpellingCorrections(word, maxDistance, maxSuggestions)
getSpellingCorrections(dict, word, maxDistance, maxSuggestions) ==
  LET lowerWord == toLowerCase(word)
      candidates == SortCandidates(Candidates(dict.wordList, lowerWord, maxDistance, 1))
      unique == KeepUnique(candidates, <<>>, maxSuggestions, 1)
  IN [k \in 1..Len(unique) |-> unique[k].word]

\* The dictionary object the page holds.
Dict == [root |-> root, wordList |-> wordList, wordsSet |-> wordsSet]

\* ------------------------------------------------------------- vocabulary of the claims
NoDuplicates(s) == \A i, j \in 1..Len(s) : i # j => s[i] # s[j]

\* s starts with p.
StartsWith(s, p) == Len(p) <= Len(s) /\ SubSeq(s, 1, Len(p)) = p

\* The words inserted so far, lower-cased (from the history of the calls).
Inserted == Range(firstSeen)

\* The strings spelled by the paths from the root object to a terminal node,
\* found by following the children maps.
RECURSIVE TerminalsBelow(_, _)
TerminalsBelow(nodes, node) ==
  (IF nodes[node].isEndOfWord THEN {node} ELSE {})
    \cup UNION {TerminalsBelow(nodes, Append(node, nodes[node].children[i])) :
                  i \in 1..Len(nodes[node].children)}

\* The nodes reachable from the root object.
RECURSIVE NodesBelow(_, _)
NodesBelow(nodes, node) ==
  {node} \cup UNION {NodesBelow(nodes, Append(node, nodes[node].children[i])) :
                       i \in 1..Len(nodes[node].children)}

\* ------------------------------------------------------------- engine
EngineInit ==
  /\ root = NewDictionary.root
  /\ wordList = NewDictionary.wordList
  /\ wordsSet = NewDictionary.wordsSet
  /\ expected = <<>>
  /\ firstSeen = <<>>

EditIdle == a = <<>> /\ b = <<>> /\ dist = -1

AppIdle ==
  /\ loadPc = "start"
  /\ csvRows = <<>>
  /\ timers = <<>>
  /\ shown = ""
  /\ events = <<>>

Init == EngineInit /\ EditIdle /\ AppIdle

\* The history after a call insertWord(word, definition): the definition
\* the update rule leaves for each word, and the words in order of first
\* insertion.
Recorded(history, word, definition) ==
  LET lw == toLowerCase(word) IN
  [expected |->
     IF lw \in DOMAIN history.expected /\ definition = ""
     THEN history.expected
     ELSE [w \in DOMAIN history.expected \cup {lw} |->
             IF w = lw THEN definition ELSE history.expected[w]],
   firstSeen |->
     IF lw \in Range(history.firstSeen) THEN history.firstSeen
     ELSE Append(history.firstSeen, lw)]

History == [expected |-> expected, firstSeen |-> firstSeen]

\* What a call of insertWord does to the page's dictionary, with the
\* history of the calls kept beside it.
ApplyInsert(word, definition) ==
  LET after == insertWord(Dict, word, definition)
      history == Recorded(History, word, definition)
  IN /\ root' = after.root
     /\ wordList' = after.wordList
     /\ wordsSet' = after.wordsSet
     /\ expected' = history.expected
     /\ firstSeen' = history.firstSeen

\* The characters stored by a list of words.
RECURSIVE TotalChars(_)
TotalChars(words) ==
  IF words = <<>> THEN 0 ELSE Len(Head(words)) + TotalChars(Tail(words))

\* A caller inserts a word with one of the definitions; a new word is
\* accepted while the characters stored stay within the capacity.
InsertInto(words, capacity, definitions) ==
  LET free == capacity - TotalChars(wordList) IN
  \E word \in words :
    /\ Len(word) <= free \/ toLowerCase(word) \in wordsSet
    /\ \E definition \in definitions :
         /\ ApplyInsert(word, definition)
         /\ UNCHANGED <<editVars, appVars>>

\* insertWord(word, definition)
InsertWord == InsertInto(Words, MaxChars, Definitions)

\* insertWord(word): the definition defaults to "".
InsertPlain == InsertInto(PlainWords, MaxLexChars, {""})

Next == InsertWord

\* The dictionary under inserts with definitions.
Spec == Init /\ [][Next]_vars

NextLex == InsertPlain

\* The dictionary under inserts with the default definition: the state the
\* prefix and fuzzy queries read (they never read a definition).
SpecLex == Init /\ [][NextLex]_vars

\* ------------------------------------------------------------- editDistance alone
\* The arguments of an editDistance call, drawn at the start.
EditInit ==
  /\ EngineInit /\ AppIdle
  /\ a \in StringsOver(LowerChars, MaxStr)
  /\ b \in StringsOver(LowerChars, MaxStr)
  /\ dist = -1

\* editDistance(a, b) runs.
ComputeDistance ==
  /\ dist = -1
  /\ dist' = editDistance(a, b)
  /\ UNCHANGED <<a, b, engineVars, appVars>>

NextEdit == ComputeDistance

SpecEdit == EditInit /\ [][NextEdit]_vars

\* ------------------------------------------------------------- the page
\* The timer delays and the arguments the page's callbacks pass.
SearchDelay == 200
SearchMaxDistance == 2
SearchMaxSuggestions == 3
SuggestDelay == 150
SuggestLimit == 15
CorrectDelay == 150
CorrectMaxDistance == 3
CorrectLimit == 10
LiveDelay == 250
LiveLimit == 5
LiveMinLength == 2

\* What the user may have typed in searchInput (trimmed, not empty).
UserTexts == {<<"a">>, <<"A", "b">>}

\* The rows Papa.parse may yield: the trimmed first field and the joined
\* rest.  A blank first field is the empty word.
CsvRow == [word : {<<>>, <<"a">>, <<"a", "b">>}, definition : {"x"}]
CsvFiles == UNION {[1..k -> CsvRow] : k \in 0..MaxRows}

\* The page after app.js has run: the dictionary is empty, the listeners
\* are registered, and dictionary.csv holds some rows.
AppInit ==
  /\ EngineInit /\ EditIdle
  /\ loadPc = "start"
  /\ csvRows \in CsvFiles
  /\ timers = <<>>
  /\ shown = ""
  /\ events = <<>>

\* The DOMContentLoaded handler runs loadFromCsvFile up to `await fetch`.
DomContentLoaded ==
  /\ loadPc = "start"
  /\ loadPc' = "fetching"
  /\ shown' = "loading dictionary"
  /\ UNCHANGED <<csvRows, timers, events, engineVars, editVars>>

\* fetch rejects, or the response is not ok: the catch block.
FetchFails ==
  /\ loadPc = "fetching"
  /\ loadPc' = "failed"
  /\ shown' = "failed to load dictionary"
  /\ UNCHANGED <<csvRows, timers, events, engineVars, editVars>>

\* fetch resolves with an ok response; the handler awaits response.text().
FetchResponds ==
  /\ loadPc = "fetching"
  /\ loadPc' = "reading"
  /\ UNCHANGED <<csvRows, timers, shown, events, engineVars, editVars>>

\* response.text() rejects: the catch block.
ReadFails ==
  /\ loadPc = "reading"
  /\ loadPc' = "failed"
  /\ shown' = "failed to load dictionary"
  /\ UNCHANGED <<csvRows, timers, events, engineVars, editVars>>

\* parsed.data.forEach: insertWord for each row whose word is not blank,
\* from the i-th row on.
RECURSIVE LoadRowsFrom(_, _, _)
LoadRowsFrom(dict, rows, i) ==
  IF i > Len(rows) THEN dict
  ELSE LoadRowsFrom(IF rows[i].word # <<>>
                    THEN insertWord(dict, rows[i].word, rows[i].definition)
                    ELSE dict,
                    rows, i + 1)

\* The history of those insertWord calls.
RECURSIVE RecordedRowsFrom(_, _, _)
RecordedRowsFrom(history, rows, i) ==
  IF i > Len(rows) THEN history
  ELSE RecordedRowsFrom(IF rows[i].word # <<>>
                        THEN Recorded(history, rows[i].word, rows[i].definition)
                        ELSE history,
                        rows, i + 1)

\* The insertWord calls that forEach makes.
InsertCalls(rows) ==
  [k \in 1..Len(SelectSeq(rows, LAMBDA r : r.word # <<>>)) |-> "insert"]

\* response.text() resolves: the rest of loadFromCsvFile runs in one task,
\* parsing the text and inserting every row.
LoadRows ==
  /\ loadPc = "reading"
  /\ loadPc' = "loaded"
  /\ LET after == LoadRowsFrom(Dict, csvRows, 1)
         history == RecordedRowsFrom(History, csvRows, 1)
     IN /\ root' = after.root
        /\ wordList' = after.wordList
        /\ wordsSet' = after.wordsSet
        /\ expected' = history.expected
        /\ firstSeen' = history.firstSeen
  /\ events' = events \o InsertCalls(csvRows)
  /\ shown' = "dictionary loaded"
  /\ UNCHANGED <<csvRows, timers, editVars>>

\* The user can act once the page has dispatched DOMContentLoaded, and the
\* history and the timers are capped.
UserCanAct ==
  /\ loadPc # "start"
  /\ Len(timers) < MaxTimers
  /\ Len(events) + Len(timers) < MaxEvents

\* setTimeout(callback, delay)
SetTimeout(kind, text, delay) ==
  Append(timers, [kind |-> kind, text |-> text, delay |-> delay])

\* searchWord(): the Search button, the Enter key or a clicked suggestion.
ClickSearch ==
  \E text \in UserTexts :
    /\ UserCanAct
    /\ shown' = "processing"
    /\ timers' = SetTimeout("search", text, SearchDelay)
    /\ UNCHANGED <<loadPc, csvRows, events, engineVars, editVars>>

\* getAutoSuggestions(): the Suggest button.
ClickSuggest ==
  \E text \in UserTexts :
    /\ UserCanAct
    /\ shown' = "processing"
    /\ timers' = SetTimeout("suggest", text, SuggestDelay)
    /\ UNCHANGED <<loadPc, csvRows, events, engineVars, editVars>>

\* getSpellingCorrections(): the Spell-check button.
ClickCorrect ==
  \E text \in UserTexts :
    /\ UserCanAct
    /\ shown' = "processing"
    /\ timers' = SetTimeout("correct", text, CorrectDelay)
    /\ UNCHANGED <<loadPc, csvRows, events, engineVars, editVars>>

\* The input listener: clearTimeout(debounceTimer), and a new timer when
\* the value has at least two characters.
TypeInput ==
  \E text \in UserTexts :
    /\ loadPc # "start"
    /\ Len(events) + Len(timers) < MaxEvents
    /\ LET kept == SelectSeq(timers, LAMBDA t : t.kind # "live") IN
         /\ Len(text) < LiveMinLength \/ Len(kept) < MaxTimers
         /\ timers' = IF Len(text) >= LiveMinLength
                      THEN Append(kept, [kind |-> "live", text |-> text,
                                         delay |-> LiveDelay])
                      ELSE kept
    /\ UNCHANGED <<loadPc, csvRows, shown, events, engineVars, editVars>>

\* What a timer callback calls on the dictionary and shows.
CallbackShows(t) ==
  CASE t.kind = "search" ->
         IF searchWord(Dict, t.text).found THEN "word found"
         ELSE IF getSpellingCorrections(Dict, t.text, SearchMaxDistance,
                                        SearchMaxSuggestions) # <<>>
         THEN "word not found, did you mean"
         ELSE "word not found"
    [] t.kind = "suggest" ->
         IF getAutoSuggestions(Dict, t.text, SuggestLimit) # <<>>
         THEN "suggestions" ELSE "no suggestions"
    [] t.kind = "correct" ->
         IF getSpellingCorrections(Dict, t.text, CorrectMaxDistance,
                                   CorrectLimit) # <<>>
         THEN "corrections" ELSE "no corrections needed"
    [] t.kind = "live" ->
         IF getAutoSuggestions(Dict, t.text, LiveLimit) # <<>>
         THEN shown ELSE shown

\* A pending timer expires and its callback queries the dictionary.  A timer
\* set earlier with a delay no longer expires first.
TimerFires ==
  \E k \in 1..Len(timers) :
    /\ \A i \in 1..(k - 1) : timers[i].delay > timers[k].delay
    /\ shown' = CallbackShows(timers[k])
    /\ events' = Append(events, "query")
    /\ timers' = SubSeq(timers, 1, k - 1) \o SubSeq(timers, k + 1, Len(timers))
    /\ UNCHANGED <<loadPc, csvRows, engineVars, editVars>>

NextApp ==
  \/ DomContentLoaded
  \/ FetchFails
  \/ FetchResponds
  \/ ReadFails
  \/ LoadRows
  \/ ClickSearch
  \/ ClickSuggest
  \/ ClickCorrect
  \/ TypeInput
  \/ TimerFires

\* The page: the load of the dictionary interleaved with the user's queries.
SpecApp == AppInit /\ [][NextApp]_vars

\* ------------------------------------------------------------- claims
\* C3: for every prefix and every maxSuggestions > 0, getAutoSuggestions
\* returns at most maxSuggestions words, no word twice, each starting with
\* the lower-cased prefix and each found by searchWord.
C3_SuggestionsSound ==
  \A prefix \in QueryWords, maxSuggestions \in SugLimits :
    LET r == getAutoSuggestions(Dict, prefix, maxSuggestions) IN
      /\ Len(r) <= maxSuggestions
      /\ NoDuplicates(r)
      /\ \A k \in 1..Len(r) :
           /\ StartsWith(r[k], toLowerCase(prefix))
           /\ searchWord(Dict, r[k]).found

\* C4: getAutoSuggestions is complete up to its limit: with N stored words
\* starting with the lower-cased prefix, it returns exactly those N words
\* when N <= maxSuggestions (none when N = 0) and exactly maxSuggestions
\* words when N > maxSuggestions.
C4_SuggestionsComplete ==
  \A prefix \in QueryWords, maxSuggestions \in SugLimits :
    LET r == getAutoSuggestions(Dict, prefix, maxSuggestions)
        matching == {w \in Inserted : StartsWith(w, toLowerCase(prefix))}
    IN IF Cardinality(matching) <= maxSuggestions
       THEN Range(r) = matching /\ Len(r) = Cardinality(matching)
       ELSE Len(r) = maxSuggestions

\* The any-case spellings of a lower-cased word.
Casings(lowerWord) ==
  {w \in [1..Len(lowerWord) -> Chars] : toLowerCase(w) = lowerWord}

\* C1: after any sequence of insertWord calls, searchWord of any casing of
\* a word inserted so far returns found = true and the definition last
\* inserted for its lower-cased form (a non-empty definition overwrites, an
\* empty one changes nothing).  The history `expected` never loses a word,
\* so a word once found stays found after every later insert.
C1_LookupAfterInsert ==
  \A lw \in DOMAIN expected :
    \A w \in Casings(lw) :
      searchWord(Dict, w) = [found |-> TRUE, definition |-> expected[lw]]

\* C1's case: a word holds a definition that overwrote another, a second
\* word is stored, and an upper-case spelling finds it.
C1_Witness ==
  /\ <<"a", "b">> \in DOMAIN expected
  /\ expected[<<"a", "b">>] = "y"
  /\ Cardinality(DOMAIN expected) >= 2
  /\ searchWord(Dict, <<"A", "b">>) = [found |-> TRUE, definition |-> "y"]

\* C2: searchWord of a string whose lower-cased form was never inserted
\* returns found = false and definition = "", strict prefixes of stored
\* words and the empty string included; every node that is not terminal
\* holds the empty definition.
C2_AbsentNotFound ==
  /\ \A w \in Words :
       toLowerCase(w) \notin Inserted
         => searchWord(Dict, w) = [found |-> FALSE, definition |-> ""]
  /\ \A node \in NodesBelow(root, <<>>) :
       ~root[node].isEndOfWord => root[node].definition = ""

\* C2's case: a word with a definition is stored below a strict prefix that
\* was never inserted, and the empty string was never inserted either.
C2_Witness ==
  /\ <<"a", "b">> \in Inserted
  /\ root[<<"a", "b">>].definition = "x"
  /\ <<"a">> \notin Inserted
  /\ <<>> \notin Inserted
  /\ searchWord(Dict, <<"A">>) = [found |-> FALSE, definition |-> ""]

\* Words in one case throughout, new to the dictionary or not.
OneCaseWords ==
  StringsOver(LowerChars, MaxQuery) \cup StringsOver(UpperChars, MaxQuery)

\* What insertWord(word, definition) must leave of a dictionary that holds
\* the word already.
C8_Frame(before, after, lowerWord, definition) ==
  IF definition = ""
  THEN after = before
  ELSE /\ after.wordList = before.wordList
       /\ after.wordsSet = before.wordsSet
       /\ DOMAIN after.root = DOMAIN before.root
       /\ \A node \in DOMAIN before.root :
            /\ after.root[node].children = before.root[node].children
            /\ after.root[node].isEndOfWord = before.root[node].isEndOfWord
            /\ after.root[node].definition =
                 IF node = lowerWord THEN definition
                 ELSE before.root[node].definition

\* C8: insertWord of a word already present changes nothing when the
\* definition is empty and only that word's definition otherwise; and
\* inserting the same pair twice in a row leaves the dictionary as
\* inserting it once does.
C8_ReinsertFrame ==
  /\ \A lw \in wordsSet, definition \in Definitions :
       \A word \in Casings(lw) :
         LET once == insertWord(Dict, word, definition) IN
           /\ C8_Frame(Dict, once, lw, definition)
           /\ insertWord(once, word, definition) = once
  /\ \A word \in OneCaseWords, definition \in Definitions :
       LET once == insertWord(Dict, word, definition) IN
         insertWord(once, word, definition) = once

\* C8's case: two words are stored, one with a definition an empty
\* re-insert must keep and a non-empty re-insert must replace.
C8_Witness ==
  /\ Len(wordList) >= 2
  /\ \E lw \in wordsSet :
       /\ root[lw].definition = "x"
       /\ insertWord(Dict, lw, "") = Dict
       /\ insertWord(Dict, lw, "y") # Dict

\* C9: the words spelled by the paths to terminal nodes, wordsSet and the
\* elements of wordList are the same set, and wordList holds each
\* lower-cased word once, in order of first insertion.
C9_ThreeViewsAgree ==
  /\ TerminalsBelow(root, <<>>) = wordsSet
  /\ wordsSet = Range(wordList)
  /\ NoDuplicates(wordList)
  /\ wordList = firstSeen

\* C9's case: the empty word and two other words are stored, one of them a
\* prefix of the other.
C9_Witness ==
  /\ Len(wordList) = 3
  /\ <<>> \in wordsSet
  /\ \E u, v \in wordsSet : u # v /\ u # <<>> /\ StartsWith(v, u)

\* ------------------------------------------------------------- claims on the queries
\* u sorts strictly before v alphabetically: at the first position where
\* they differ u has the smaller letter, or u ends there.
AlphaBefore(u, v) ==
  \E k \in 1..(Len(v)) :
    /\ k <= Len(u) + 1
    /\ \A i \in 1..(k - 1) : u[i] = v[i]
    /\ k = Len(u) + 1 \/ CharCode(u[k]) < CharCode(v[k])

\* C3's case: more stored words start with an upper-case prefix than the
\* limit allows, and the limit cuts the result.
C3_Witness ==
  /\ Cardinality({w \in Inserted : StartsWith(w, <<"a">>)}) = 2
  /\ Len(getAutoSuggestions(Dict, <<"A">>, 1)) = 1
  /\ Len(getAutoSuggestions(Dict, <<"A">>, 2)) = 2

\* C4's case: a prefix with no path, a prefix matched by as many words as
\* the limit, and four words below the root with the limit 1, where the
\* traversal stops at its cap of 3.
C4_Witness ==
  /\ Cardinality(Inserted) = 4
  /\ Len(dfs(root, <<>>, <<>>, <<>>, 3)) = 3
  /\ Len(getAutoSuggestions(Dict, <<>>, 1)) = 1
  /\ \E prefix \in QueryWords :
       /\ Walk(root, <<>>, toLowerCase(prefix), 1).missing
       /\ getAutoSuggestions(Dict, prefix, 2) = <<>>
  /\ \E prefix \in QueryWords :
       /\ prefix # <<>>
       /\ Len(getAutoSuggestions(Dict, prefix, 2)) = 2

\* C5: for maxSuggestions >= 1 (with maxSuggestions = 0 the loop's limit
\* test, made after the push, still lets one word through),
\* getSpellingCorrections returns the first maxSuggestions entries of
\* the stored words w with 0 < editDistance(lower(word), w) <= maxDistance,
\* ranked by distance and then alphabetically: no duplicate, never the
\* lower-cased query, and no qualifying word left out that ranks before a
\* returned one.
C5_CorrectionsRanked ==
  \A word \in QueryWords :
    LET lw == toLowerCase(word)
        scored == {<<w, editDistance(lw, w)>> : w \in Inserted}
        d(w) == (CHOOSE p \in scored : p[1] = w)[2]
        Before(u, v) == d(u) < d(v) \/ (d(u) = d(v) /\ AlphaBefore(u, v))
    IN \A maxDistance \in Distances, maxSuggestions \in SugLimits :
         LET r == getSpellingCorrections(Dict, word, maxDistance, maxSuggestions)
             qualifying == {p[1] : p \in {q \in scored : 0 < q[2] /\ q[2] <= maxDistance}}
         IN /\ Range(r) \subseteq qualifying
            /\ lw \notin Range(r)
            /\ NoDuplicates(r)
            /\ Len(r) = Min2(maxSuggestions, Cardinality(qualifying))
            /\ \A i, j \in 1..Len(r) : i < j => Before(r[i], r[j])
            /\ \A w \in qualifying \ Range(r) :
                 \A k \in 1..Len(r) : Before(r[k], w)

\* C5's case: the query is a stored word; three other stored words qualify,
\* at two different distances; the limit cuts the list, and the order
\* returned is not the order of insertion.
C5_Witness ==
  \E word \in QueryWords :
    LET lw == toLowerCase(word)
        r == getSpellingCorrections(Dict, word, 2, 2)
        all == Candidates(wordList, lw, 2, 1)
    IN /\ lw \in wordsSet
       /\ Len(all) >= 3
       /\ \E i, j \in 1..Len(all) : all[i].distance # all[j].distance
       /\ Len(r) = 2
       /\ r # <<all[1].word, all[2].word>>

\* The words of a set in alphabetical order.
RECURSIVE Alphabetical(_)
Alphabetical(S) ==
  IF S = {} THEN <<>>
  ELSE LET first == CHOOSE u \in S : \A v \in S \ {u} : AlphaBefore(u, v)
       IN <<first>> \o Alphabetical(S \ {first})

\* The dictionary built by inserting the given words in the given order,
\* each with the definition it has in the page's dictionary.
RECURSIVE BuildFrom(_)
BuildFrom(words) ==
  IF words = <<>> THEN NewDictionary
  ELSE LET last == words[Len(words)] IN
       insertWord(BuildFrom(SubSeq(words, 1, Len(words) - 1)), last,
                  root[last].definition)

\* The dictionary that holds the same words with the same definitions,
\* built in alphabetical order.
SameWordsAlphabetical == BuildFrom(Alphabetical(wordsSet))

\* u comes before v in the traversal of the trie: u is a prefix of v, or at
\* the first position where they differ the edge of u was added to the
\* children map before the edge of v.
VisitedBefore(nodes, u, v) ==
  \/ StartsWith(v, u)
  \/ \E k \in 1..Len(u) :
       /\ k <= Len(v)
       /\ SubSeq(u, 1, k - 1) = SubSeq(v, 1, k - 1)
       /\ u[k] # v[k]
       /\ LET keys == nodes[SubSeq(u, 1, k - 1)].children IN
          \E i, j \in 1..Len(keys) : i < j /\ keys[i] = u[k] /\ keys[j] = v[k]

\* C7 as claimed: two dictionaries that hold the same words, built in
\* different insertion orders, return the same suggestions in the same
\* order, for every prefix and every maxSuggestions > 0.
C7_OrderIndependent ==
  LET other == SameWordsAlphabetical IN
  \A prefix \in QueryWords, maxSuggestions \in SugLimits :
    getAutoSuggestions(Dict, prefix, maxSuggestions)
      = getAutoSuggestions(other, prefix, maxSuggestions)

\* C7 as amended: the traversal visits the child edges in the order in
\* which they were added to each node (the order of the Map), so the
\* suggestions come in that order; two dictionaries that hold the same
\* words, built in different insertion orders, return the same number of
\* suggestions, and the same set of them when no more than maxSuggestions
\* stored words start with the prefix.
C7_SameWordsSameSet ==
  LET other == SameWordsAlphabetical IN
  \A prefix \in QueryWords, maxSuggestions \in SugLimits :
    LET r == getAutoSuggestions(Dict, prefix, maxSuggestions)
        ro == getAutoSuggestions(other, prefix, maxSuggestions)
        matching == {w \in wordsSet : StartsWith(w, toLowerCase(prefix))}
    IN /\ other.wordsSet = wordsSet
       /\ Len(r) = Len(ro)
       /\ Cardinality(matching) <= maxSuggestions => Range(r) = Range(ro)
       /\ \A i, j \in 1..Len(r) : i < j => VisitedBefore(root, r[i], r[j])
       /\ \A i, j \in 1..Len(ro) : i < j => VisitedBefore(other.root, ro[i], ro[j])

\* C7's case: the same two words, inserted in the two orders, are suggested
\* in the two orders.
C7_Witness ==
  /\ wordList = << <<"b">>, <<"a">> >>
  /\ getAutoSuggestions(Dict, <<>>, 2) = << <<"b">>, <<"a">> >>
  /\ getAutoSuggestions(SameWordsAlphabetical, <<>>, 2) = << <<"a">>, <<"b">> >>

\* ------------------------------------------------------------- claims on editDistance
\* The strings one insertion, deletion or substitution of a single character
\* away from u, of at most MaxStr characters.
OneEditFrom(u) ==
  {SubSeq(u, 1, i - 1) \o SubSeq(u, i + 1, Len(u)) : i \in 1..Len(u)}
    \cup {[u EXCEPT ![i] = c] : i \in 1..Len(u), c \in LowerChars}
    \cup (IF Len(u) < MaxStr
          THEN {SubSeq(u, 1, i) \o <<c>> \o SubSeq(u, i + 1, Len(u)) :
                  i \in 0..Len(u), c \in LowerChars}
          ELSE {})

\* The least number of single-character edits that turn s into t: the
\* number of rounds after which t is among the strings reached from s.
RECURSIVE EditsToReach(_, _, _)
EditsToReach(reached, t, k) ==
  IF t \in reached THEN k
  ELSE EditsToReach(reached \cup UNION {OneEditFrom(u) : u \in reached}, t, k + 1)

Levenshtein(s, t) == EditsToReach({s}, t, 0)

\* C6: editDistance(a, b) is the Levenshtein distance of a and b; it is 0
\* for equal strings, the same for (b, a), and |b| when a is empty.
C6_EditDistanceIsLevenshtein ==
  dist # -1 =>
    /\ dist = Levenshtein(a, b)
    /\ a = b => dist = 0
    /\ dist = editDistance(b, a)
    /\ a = <<>> => dist = Len(b)

\* C6's case: the distance of two strings of three characters that differ
\* in their first and last characters has been computed.
C6_Witness ==
  /\ a = <<"a", "a", "b">>
  /\ b = <<"b", "a", "a">>
  /\ dist = 2

\* ------------------------------------------------------------- claims on the page
\* C10: load-then-serve: every insertWord call the page makes happens
\* before every query it runs; no query runs before or between the inserts
\* of the load.
C10_LoadThenServe ==
  \A i, j \in 1..Len(events) :
    (events[i] = "insert" /\ events[j] = "query") => i < j

=============================================================================
